---- MODULE Spec2Model ----
(***************************************************************************)
(* Free fall of a sphere with altitude dependent drag (FreeFall).          *)
(*                                                                         *)
(* Python floats are modelled as fixed-point numbers: a real x is held as  *)
(* the integer x * ONE, products and quotients round toward zero.  A float *)
(* holds a bounded number of significant bits, so the sums that run along  *)
(* a trajectory (altitude, distance) are rounded to MantissaBits bits, to  *)
(* nearest, ties to even; the other sums stay below that size.             *)
(* Units follow the source except where a quantity would vanish at this    *)
(* resolution:                                                             *)
(*   cross_section  cm^2    (source: m^2)                                  *)
(*   viscosity      uPa*s   (source: Pa*s)                                 *)
(*   Reynolds       thousands                                              *)
(* The conversion factors are written where the quantities are used.       *)
(***************************************************************************)
EXTENDS Integers, Sequences, FiniteSets, TLC

\* ------------------------------------------------------------------------
\* Fixed-point arithmetic (the float operations of the source)
\* ------------------------------------------------------------------------

\* 1.0
ONE == 10000

\* Python evaluates the arguments of a call once, before the call
Call1(F(_), a) == CHOOSE r \in {F(x) : x \in {a}} : TRUE

Call2(F(_, _), a, b) == CHOOSE r \in {F(x, y) : x \in {a}, y \in {b}} : TRUE

Call3(F(_, _, _), a, b, c) ==
    CHOOSE r \in {F(x, y, z) : x \in {a}, y \in {b}, z \in {c}} : TRUE

Abs(x) == IF x < 0 THEN 0 - x ELSE x

Sgn(x) == IF x < 0 THEN 0 - 1 ELSE 1

MulFixVal(a, b) ==
    LET x == Abs(a)
        y == Abs(b)
        x1 == x \div 100
        x0 == x % 100
        y1 == y \div 100
        y0 == y % 100
        m == x1 * y0 + x0 * y1
    IN  Sgn(a) * Sgn(b)
          * (x1 * y1 + m \div 100 + ((m % 100) * 100 + x0 * y0) \div ONE)

\* a * b
MulFix(a, b) == Call2(MulFixVal, a, b)

\* long division of the remainder r by y: the four decimal digits of r / y
LongDiv(r, y) ==
    LET d1 == (r * 10) \div y
        r1 == (r * 10) % y
        d2 == (r1 * 10) \div y
        r2 == (r1 * 10) % y
        d3 == (r2 * 10) \div y
        r3 == (r2 * 10) % y
        d4 == (r3 * 10) \div y
    IN  d1 * 1000 + d2 * 100 + d3 * 10 + d4

DivFixVal(a, b) ==
    LET x == Abs(a)
        y == Abs(b)
    IN  Sgn(a) * Sgn(b) * ((x \div y) * ONE + LongDiv(x % y, y))

\* a / b, b # 0
DivFix(a, b) == Call2(DivFixVal, a, b)

\* significant bits of a float
MantissaBits == 24

RECURSIVE UlpFrom(_, _)
\* the spacing of the floats around a >= 0, from the candidate spacing q
UlpFrom(a, q) ==
    IF a \div q < 2 ^ MantissaBits THEN q ELSE UlpFrom(a, 2 * q)

RoundFloatVal(x) ==
    LET a == Abs(x)
        q == UlpFrom(a, 1)
        r == a % q
        low == a - r
    IN  Sgn(x) * (IF 2 * r > q \/ (2 * r = q /\ (low \div q) % 2 = 1)
                  THEN low + q
                  ELSE low)

\* the float nearest to x
RoundFloat(x) == Call1(RoundFloatVal, x)

\* a + b
AddFloat(a, b) == RoundFloat(a + b)

\* a - b
SubFloat(a, b) == RoundFloat(a - b)

RECURSIVE SqrtIter(_, _)
SqrtStep(a, x, y) == IF y >= x THEN x ELSE SqrtIter(a, y)

\* Newton iteration for floor(sqrt(a * ONE)), x is never below the root
SqrtIter(a, x) == Call3(SqrtStep, a, x, (x + DivFix(a, x)) \div 2)

SqrtVal(a) ==
    IF a = 0 THEN 0
    ELSE SqrtIter(a, IF a < ONE THEN ONE
                     ELSE IF a < 100 * ONE THEN 10 * ONE
                     ELSE IF a < 10000 * ONE THEN 100 * ONE
                     ELSE 470 * ONE)

\* math.sqrt(a), a >= 0
Sqrt(a) == Call1(SqrtVal, a)

\* ln 2
LN2 == 6931

RECURSIVE ExpSeries(_, _, _)
ExpSeriesVal(x, term, k) ==
    IF term = 0 THEN 0
    ELSE term + ExpSeries(x, MulFix(term, x) \div k, k + 1)

\* Taylor series of exp on [0, ln 2): term is x^(k-1)/(k-1)!
ExpSeries(x, term, k) == Call3(ExpSeriesVal, x, term, k)

\* exp(x) for x >= 0: x = k * ln 2 + r, exp(x) = 2^k * exp(r)
ExpPos(x) == ExpSeries(x % LN2, ONE, 1) * 2 ^ (x \div LN2)

ExpVal(x) ==
    IF x >= 0 THEN ExpPos(x)
    ELSE IF x < 0 - 9 * ONE THEN 0
    ELSE DivFix(ONE, ExpPos(0 - x))

\* math.exp(x)
Exp(x) == Call1(ExpVal, x)

RECURSIVE LnSeries(_, _, _)
LnSeriesVal(zz, pw, k) ==
    IF pw = 0 THEN 0
    ELSE 2 * (pw \div k) + LnSeries(zz, MulFix(pw, zz), k + 2)

\* series of 2 * atanh(z) = 2 * (z + z^3/3 + z^5/5 + ...), pw is z^k
LnSeries(zz, pw, k) == Call3(LnSeriesVal, zz, pw, k)

LnReduced(z) == LnSeries(MulFix(z, z), z, 1)

RECURSIVE Ln(_)
LnVal(x) ==
    IF x > (3 * ONE) \div 2 THEN Ln(x \div 2) + LN2
    ELSE IF x < (3 * ONE) \div 4 THEN Ln(2 * x) - LN2
    ELSE Call1(LnReduced, DivFix(x - ONE, x + ONE))

\* math.log(x), x > 0: halve or double x into [3/4, 3/2], then the series
Ln(x) == Call1(LnVal, x)

\* x ** y, x > 0
Pow(x, y) == Exp(MulFix(y, Ln(x)))

TanhOfExp(em) == DivFix(ONE - em, ONE + em)

TanhVal(x) ==
    IF Abs(x) >= 5 * ONE THEN Sgn(x) * ONE
    ELSE Sgn(x) * Call1(TanhOfExp, Exp(0 - 2 * Abs(x)))

\* math.tanh(x) = (1 - e^(-2|x|)) / (1 + e^(-2|x|)), with the sign of x
Tanh(x) == Call1(TanhVal, x)

MulMicroVal(c, x) ==
    LET a == Abs(x)
        m == c * (a \div 1000)
    IN  Sgn(x) * (m \div 1000
                  + ((m % 1000) * 1000 + c * (a % 1000)) \div 1000000)

\* c * 10^-6 * x for a small coefficient such as 0.000157, exact
MulMicro(c, x) == Call2(MulMicroVal, c, x)

\* ------------------------------------------------------------------------
\* freefall/utils.py
\* ------------------------------------------------------------------------

_calculate_speed_of_sound(pressure, density) ==
    Sqrt(DivFix(MulFix(MulFix(14000, pressure), 1000 * ONE), density))

\* viscosity in uPa*s: b = 1.46e-6 Pa*s is 1.46 uPa*s
calculate_viscosity(temperature) ==
    LET s == 1104000
        b == 14600
        temp_kelvin == temperature + 2731000
    IN  DivFix(MulFix(b, Pow(temp_kelvin, 15000)), temp_kelvin + s)

stratospheric_model(height) ==
    LET temperature == 0 - 564600
        pressure == MulFix(226500, Exp(17300 - MulMicro(157, height)))
        density == DivFix(pressure, MulFix(2869, temperature + 2731000))
    IN  [temp_c |-> temperature,
         density |-> density,
         sound |-> _calculate_speed_of_sound(pressure, density),
         viscosity |-> calculate_viscosity(temperature)]

tropospheric_model(height) ==
    LET temperature == 150400 - MulMicro(6490, height)
        pressure ==
            MulFix(1012900, Pow(DivFix(temperature + 2731000, 2880800), 52560))
        density == DivFix(pressure, MulFix(2869, temperature + 2731000))
    IN  [temp_c |-> temperature,
         density |-> density,
         sound |-> _calculate_speed_of_sound(pressure, density),
         viscosity |-> calculate_viscosity(temperature)]

\* faulty variant: 11000 m itself is taken as stratosphere
atmosphere_model_inclusive(altitude) ==
    IF altitude >= 11000 * ONE
    THEN stratospheric_model(altitude)
    ELSE tropospheric_model(altitude)

atmosphere_model(altitude) ==
    IF altitude > 11000 * ONE
    THEN stratospheric_model(altitude)
    ELSE tropospheric_model(altitude)

\* cross-section in cm^2: the factor 0.000001 (mm^2 to m^2) is 0.01
calculate_sphere_cross_section(diameter) ==
    MulFix(DivFix(MulFix(31400, MulFix(diameter, diameter)), 4 * ONE), 100)

calculate_mach_number(velocity, sound_speed) == DivFix(velocity, sound_speed)

\* Reynolds number in thousands: with the viscosity in uPa*s the factors
\* 0.001 (mm to m), 10^6 (uPa*s) and 10^-3 (thousands) cancel
calculate_reynolds(density, velocity, diameter, viscosity) ==
    DivFix(MulFix(MulFix(density, velocity), diameter), viscosity)

\* faulty variant: the flags follow the current Mach and Reynolds numbers
check_flight_conditions_current(air, velocity, diameter, flags) ==
    LET mach == calculate_mach_number(velocity, air.sound)
        reynolds ==
            calculate_reynolds(air.density, velocity, diameter, air.viscosity)
    IN  <<IF mach > 6000 THEN 1 ELSE 0,
          IF reynolds > 200 * ONE THEN 1 ELSE 0>>

\* flags is the pair <<Mach flag, Reynolds flag>>
check_flight_conditions(air, velocity, diameter, flags) ==
    LET mach == calculate_mach_number(velocity, air.sound)
        reynolds ==
            calculate_reynolds(air.density, velocity, diameter, air.viscosity)
    IN  <<IF mach > 6000 /\ flags[1] = 0 THEN 1 ELSE flags[1],
          IF reynolds > 200 * ONE /\ flags[2] = 0 THEN 1 ELSE flags[2]>>

gravity == 98100

drag_term(air, cross_section, drag_c) ==
    DivFix(MulFix(MulFix(air.density, cross_section), drag_c), 2 * ONE)

\* mass * gravity / coefficient; coefficient carries cm^2, hence 10^4
terminal_squared(air, mass, cross_section, drag_c) ==
    DivFix(MulFix(MulFix(mass, gravity), 10000 * ONE),
           drag_term(air, cross_section, drag_c))

\* the exception calculate_velocity raises, "none" when it returns
calculate_velocity_error(air, mass, cross_section, drag_c) ==
    IF drag_term(air, cross_section, drag_c) = 0 THEN "ZeroDivisionError"
    ELSE IF terminal_squared(air, mass, cross_section, drag_c) < 0
         THEN "ValueError"
    ELSE IF Sqrt(terminal_squared(air, mass, cross_section, drag_c)) = 0
         THEN "ZeroDivisionError"
    ELSE "none"

terminal_velocity(air, mass, cross_section, drag_c) ==
    Sqrt(terminal_squared(air, mass, cross_section, drag_c))

velocity_at(terminal, current_time) ==
    MulFix(terminal, Tanh(DivFix(MulFix(gravity, current_time), terminal)))

\* faulty variant: free fall without drag
calculate_velocity_no_drag(air, mass, cross_section, drag_c, current_time) ==
    MulFix(gravity, current_time)

calculate_velocity(air, mass, cross_section, drag_c, current_time) ==
    Call2(velocity_at, terminal_velocity(air, mass, cross_section, drag_c),
          current_time)

\* faulty variant: the two velocities are subtracted instead of averaged
calculate_step_distance_difference(curr_velocity, prev_velocity, time_step) ==
    MulFix(DivFix(prev_velocity - curr_velocity, 2 * ONE), time_step)

calculate_step_distance(curr_velocity, prev_velocity, time_step) ==
    MulFix(DivFix(prev_velocity + curr_velocity, 2 * ONE), time_step)

\* ------------------------------------------------------------------------
\* freefall/main.py
\* ------------------------------------------------------------------------

\* a float or int argument, and an argument of another type
Num(v) == [type |-> "float", val |-> v]

Str == [type |-> "str", val |-> 0]

\* the value of an attribute that was never assigned
Unset == 0 - 1

\* longest sample sequence a drop builds in the model
MaxSteps == 40

\* arguments tried: mass [kg], diameter [mm], drag coefficient
MassValues == {Str, Num(0 - 5000), Num(0), Num(1000), Num(5000)}

DiameterValues == {Str, Num(0 - 300000), Num(0), Num(300000)}

DragValues == {Str, Num(0 - 4400), Num(0), Num(4400)}

\* arguments tried: drop altitude [m], time step [s]
AltitudeValues ==
    {0 - 1000 * ONE, 0, 1000 * ONE, 11000 * ONE, 12000 * ONE}

TimeStepValues == {0 - 5 * ONE, 0, 5 * ONE, 10 * ONE}

\* the arguments of the two interleaved calls
PairAltitudeValues == {1000 * ONE, 12000 * ONE}

PairTimeStepValues == {10 * ONE}

\* the calls of Object.drop
Runs == {1, 2}

VARIABLES
    obj,    \* the Object under construction or constructed
    pc,     \* pc[r]: where call r of Object.drop stands
    frame,  \* frame[f]: the local variables of a call of Object.drop
    script, \* the module-level variables of a run of the script FreeFall.py
    calc    \* the local variables of a call of drop_calc

vars == <<obj, pc, frame, script, calc>>

Last(s) == s[Len(s)]

NoAir == [temp_c |-> 0, density |-> 0, sound |-> 0, viscosity |-> 0]

NoFrame ==
    [drop_altitude |-> 0, time_step |-> 0, velocity |-> <<>>,
     altitude |-> <<>>, time |-> <<>>, flags |-> <<0, 0>>,
     air |-> NoAir, error |-> "none"]

\* faulty variant: the diameter is not checked
post_init_error_mass_only(mass, diameter, drag_c) ==
    IF mass.type = "str" \/ diameter.type = "str" \/ drag_c.type = "str"
    THEN "TypeError"
    ELSE IF mass.val <= 0 THEN "ValueError"
    ELSE "none"

\* Object.__post_init__: the exception raised, "none" when it returns
post_init_error(mass, diameter, drag_c) ==
    IF mass.type = "str" \/ diameter.type = "str" \/ drag_c.type = "str"
    THEN "TypeError"
    ELSE IF mass.val <= 0 THEN "ValueError"
    ELSE IF diameter.val <= 0 THEN "ValueError"
    ELSE "none"

\* Object(mass, diameter, drag_c): the dataclass __init__ and __post_init__
new_object(mass, diameter, drag_c) ==
    LET err == post_init_error(mass, diameter, drag_c)
    IN  [state |-> IF err = "none" THEN "live" ELSE "failed",
         mass |-> mass, diameter |-> diameter, drag_c |-> drag_c,
         cross_section |->
             IF err = "none"
             THEN calculate_sphere_cross_section(diameter.val)
             ELSE Unset,
         error |-> err]

\* faulty variant: the lists live on the object, shared by all its calls
FrameOf_object(r) == 1

\* the frame that holds the locals of call r
FrameOf(r) == r

\* faulty variant: the altitude list starts at 0 like a distance list
drop_entry_from_zero(drop_altitude, time_step) ==
    [drop_altitude |-> drop_altitude, time_step |-> time_step,
     velocity |-> <<0>>, altitude |-> <<0>>, time |-> <<0>>,
     flags |-> <<0, 0>>, air |-> NoAir, error |-> "none"]

\* Object.drop, before the loop
drop_entry(drop_altitude, time_step) ==
    [drop_altitude |-> drop_altitude, time_step |-> time_step,
     velocity |-> <<0>>, altitude |-> <<drop_altitude>>, time |-> <<0>>,
     flags |-> <<0, 0>>, air |-> NoAir, error |-> "none"]

\* the loop condition of Object.drop
\* faulty variant: the loop tests the altitude of the sample before the last
loop_condition_previous(f) ==
    f.altitude[IF Len(f.altitude) > 1 THEN Len(f.altitude) - 1 ELSE 1] > 0

loop_condition(f) == Last(f.altitude) > 0

\* the end of an iteration: the new velocity and altitude are appended
append_sample(f, current_velocity) ==
    LET velocity == Append(f.velocity, current_velocity)
        step_distance ==
            calculate_step_distance(Last(velocity),
                                    velocity[Len(velocity) - 1], f.time_step)
    IN  [f EXCEPT !.velocity = velocity,
                  !.altitude =
                      Append(f.altitude,
                             SubFloat(Last(f.altitude), step_distance))]

\* faulty variant: the flight conditions are checked after the velocity
\* update, on the new velocity
iteration_checks_new_velocity(self, f, air) ==
    LET time == Append(f.time, Last(f.time) + f.time_step)
        err ==
            calculate_velocity_error(air, self.mass.val, self.cross_section,
                                     self.drag_c.val)
        current_velocity ==
            calculate_velocity(air, self.mass.val, self.cross_section,
                               self.drag_c.val, Last(time))
    IN  IF err # "none"
        THEN [f EXCEPT !.air = air, !.time = time, !.error = err]
        ELSE Call2(append_sample,
                   [f EXCEPT !.air = air, !.time = time,
                             !.flags = check_flight_conditions(
                                           air, current_velocity,
                                           self.diameter.val, f.flags)],
                   current_velocity)

\* an iteration once the air at the current altitude is known
iteration(self, f, air) ==
    LET flags ==
            check_flight_conditions(air, Last(f.velocity),
                                    self.diameter.val, f.flags)
        time == Append(f.time, Last(f.time) + f.time_step)
        err ==
            calculate_velocity_error(air, self.mass.val, self.cross_section,
                                     self.drag_c.val)
    IN  IF err # "none"
        THEN [f EXCEPT !.air = air, !.flags = flags, !.time = time,
                       !.error = err]
        ELSE Call2(append_sample,
                   [f EXCEPT !.air = air, !.flags = flags, !.time = time],
                   calculate_velocity(air, self.mass.val, self.cross_section,
                                      self.drag_c.val, Last(time)))

\* one iteration of the loop of Object.drop on the locals f
loop_body(self, f) ==
    Call3(iteration, self, f, atmosphere_model(Last(f.altitude)))

\* ------------------------------------------------------------------------
\* FreeFall.py, the script (version 2.4)
\* ------------------------------------------------------------------------

TIME_STEP == 500

\* longest run of the script that is followed, in iterations
ScriptMaxSteps == 600

\* the answers given to the four prompts of the script
ScriptMassValues == {0, 20000}
ScriptDiameterValues == {300000, 2600000}
ScriptDragValues == {0 - 4400, 4400}
ScriptHeightValues == {0, 5 * ONE, 9 * ONE, 3000 * ONE}

\* user_input returns the value when it is > 0 and asks again otherwise
user_input_accepts(value) == value > 0

\* before the prompts are answered
NoScript ==
    [pc |-> "input", mass |-> 0, diameter |-> 0, drag_c |-> 0, drop_h |-> 0,
     area |-> 0, velocity |-> <<>>, distance |-> <<>>, time |-> <<>>,
     h |-> 0, max_mach |-> 0, Re_max |-> 0, mach |-> 0, Re |-> 0,
     mach_warning |-> FALSE, Re_warning |-> FALSE]

\* the variables when the loop is first reached; area is in cm^2, mach
\* and Re are not yet bound
script_entry(mass, diameter, drag_c, drop_h) ==
    [NoScript EXCEPT !.pc = "loop", !.mass = mass, !.diameter = diameter,
                     !.drag_c = drag_c, !.drop_h = drop_h,
                     !.area = calculate_sphere_cross_section(diameter),
                     !.velocity = <<0>>, !.distance = <<0>>, !.time = <<0>>,
                     !.h = drop_h]

\* T, density, sound and viscosity of the script at height h
script_air(h) ==
    IF h > 11000 * ONE
    THEN stratospheric_model(h)
    ELSE tropospheric_model(h)

script_mach(velocity, air) == DivFix(velocity, air.sound)

\* Re in thousands, as calculate_reynolds
script_Re(velocity, diameter, air) ==
    DivFix(MulFix(MulFix(air.density, velocity), diameter), air.viscosity)

\* the trapezoid sum of the script with the new velocity bound
script_advance(s, current_velocity) ==
    LET velocity == Append(s.velocity, current_velocity)
        distance ==
            Append(s.distance,
                   AddFloat(Last(s.distance),
                            MulFix(DivFix(velocity[Len(velocity) - 1]
                                              + Last(velocity), 2 * ONE),
                                   TIME_STEP)))
    IN  [s EXCEPT !.velocity = velocity, !.distance = distance,
                  !.h = SubFloat(s.drop_h, Last(distance))]

\* one iteration of the loop of the script in the air of its height
script_iteration(s, air) ==
    LET mach == script_mach(Last(s.velocity), air)
        Re == script_Re(Last(s.velocity), s.diameter, air)
        time == Append(s.time, Last(s.time) + TIME_STEP)
    IN  Call2(script_advance,
              [s EXCEPT !.mach = mach, !.Re = Re,
                        !.max_mach = IF mach > @ THEN mach ELSE @,
                        !.Re_max = IF Re > @ THEN Re ELSE @,
                        !.time = time],
              calculate_velocity(air, s.mass, s.area, s.drag_c, Last(time)))

\* faulty variant: the second warning repeats the test of the first
script_warnings_mach_twice(s) ==
    [s EXCEPT !.pc = "done",
              !.mach_warning = s.max_mach > 6000,
              !.Re_warning = s.max_mach > 6000]

\* the two warnings printed after the loop
script_warnings(s) ==
    [s EXCEPT !.pc = "done",
              !.mach_warning = s.max_mach > 6000,
              !.Re_warning = s.Re > 200 * ONE]

\* ------------------------------------------------------------------------
\* src/free_fall.py and src/utils.py
\* ------------------------------------------------------------------------

\* the arguments of the calls that are run side by side
SideMassValues == {Num(0), Num(1000), Num(5000)}
SideDragValues == {Num(0), Num(4400)}
SideAltitudeValues == {1000 * ONE, 12000 * ONE}
SideTimeStepValues == {5 * ONE}

update_drag_coefficient(density, area, drag_c) ==
    DivFix(MulFix(MulFix(density, area), drag_c), 2 * ONE)

\* mass * gravity / drag_coefficient; the area is in cm^2, hence 10^4
_calculate_terminal_velocity(mass, drag_coefficient) ==
    Sqrt(DivFix(MulFix(MulFix(mass, gravity), 10000 * ONE), drag_coefficient))

\* the exception calculate_velocity of src/utils.py raises
src_calculate_velocity_error(mass, drag_co) ==
    IF drag_co = 0 THEN "ZeroDivisionError"
    ELSE IF DivFix(MulFix(MulFix(mass, gravity), 10000 * ONE), drag_co) < 0
         THEN "ValueError"
    ELSE IF _calculate_terminal_velocity(mass, drag_co) = 0
         THEN "ZeroDivisionError"
    ELSE "none"

\* calculate_velocity of src/utils.py
src_calculate_velocity(mass, drag_co, current_time) ==
    Call2(velocity_at, _calculate_terminal_velocity(mass, drag_co),
          current_time)

\* check_flight_conditions of src/utils.py
src_check_flight_conditions(mach, reynolds, flags) ==
    <<IF mach > 6000 /\ flags[1] = 0 THEN 1 ELSE flags[1],
      IF reynolds > 200 * ONE /\ flags[2] = 0 THEN 1 ELSE flags[2]>>

\* Object(mass, diameter, drag_c) of src/free_fall.py, fields numbers
src_Object(mass, diameter, drag_c) ==
    [mass |-> mass, diameter |-> diameter, drag_c |-> drag_c,
     cross_section |-> calculate_sphere_cross_section(diameter)]

\* before drop_calc is called
NoCalc ==
    [pc |-> "idle", item |-> src_Object(0, 0, 0), drop_h |-> 0,
     time_step |-> 0, velocity |-> <<>>, distance |-> <<>>, time |-> <<>>,
     flags |-> <<0, 0>>, h_actual |-> 0, error |-> "none"]

\* the checks at the head of drop_calc
drop_calc_error(item) ==
    IF item.mass <= 0 THEN "ValueError"
    ELSE IF item.diameter <= 0 THEN "ValueError"
    ELSE "none"

\* drop_calc, before the loop
drop_calc_entry(item, drop_h, time_step) ==
    IF drop_calc_error(item) # "none"
    THEN [NoCalc EXCEPT !.pc = "error", !.item = item, !.drop_h = drop_h,
                        !.time_step = time_step,
                        !.error = drop_calc_error(item)]
    ELSE [NoCalc EXCEPT !.pc = "loop", !.item = item, !.drop_h = drop_h,
                        !.time_step = time_step, !.velocity = <<0>>,
                        !.distance = <<0>>, !.time = <<0>>,
                        !.h_actual = drop_h]

\* faulty variant: the actual height is taken from the last step alone
drop_calc_advance_last_step(c, current_velocity) ==
    LET velocity == Append(c.velocity, current_velocity)
        step_distance ==
            calculate_step_distance(Last(velocity),
                                    velocity[Len(velocity) - 1], c.time_step)
        distance == Append(c.distance, AddFloat(Last(c.distance), step_distance))
    IN  [c EXCEPT !.velocity = velocity, !.distance = distance,
                  !.h_actual = SubFloat(c.drop_h, step_distance)]

\* the end of an iteration of drop_calc: velocity, distance and height
drop_calc_advance(c, current_velocity) ==
    LET velocity == Append(c.velocity, current_velocity)
        step_distance ==
            calculate_step_distance(Last(velocity),
                                    velocity[Len(velocity) - 1], c.time_step)
        distance == Append(c.distance, AddFloat(Last(c.distance), step_distance))
    IN  [c EXCEPT !.velocity = velocity, !.distance = distance,
                  !.h_actual = SubFloat(c.drop_h, Last(distance))]

\* an iteration of drop_calc once the air at the actual height is known
drop_calc_iteration(c, air) ==
    LET mach == calculate_mach_number(Last(c.velocity), air.sound)
        reynolds ==
            calculate_reynolds(air.density, Last(c.velocity),
                               c.item.diameter, air.viscosity)
        flags == src_check_flight_conditions(mach, reynolds, c.flags)
        k == update_drag_coefficient(air.density, c.item.cross_section,
                                     c.item.drag_c)
        time == Append(c.time, Last(c.time) + c.time_step)
        err == src_calculate_velocity_error(c.item.mass, k)
    IN  IF err # "none"
        THEN [c EXCEPT !.pc = "error", !.flags = flags, !.time = time,
                       !.error = err]
        ELSE Call2(drop_calc_advance,
                   [c EXCEPT !.flags = flags, !.time = time],
                   src_calculate_velocity(c.item.mass, k, Last(time)))

\* the air model drop_calc selects at the height h_actual
drop_calc_air(h_actual) ==
    IF h_actual > 11000 * ONE
    THEN stratospheric_model(h_actual)
    ELSE tropospheric_model(h_actual)

Init ==
    /\ obj = [state |-> "absent", mass |-> Num(0), diameter |-> Num(0),
              drag_c |-> Num(0), cross_section |-> Unset, error |-> "none"]
    /\ pc = [r \in Runs |-> "idle"]
    /\ frame = [r \in Runs |-> NoFrame]
    /\ script = NoScript
    /\ calc = NoCalc

\* Object(mass, diameter, drag_c)
Construct(mass, diameter, drag_c) ==
    /\ obj.state = "absent"
    /\ obj' = new_object(mass, diameter, drag_c)
    /\ UNCHANGED <<pc, frame, script, calc>>

\* call r enters Object.drop(drop_altitude, time_step)
DropCall(r, drop_altitude, time_step) ==
    /\ obj.state = "live"
    /\ pc[r] = "idle"
    /\ frame' = [frame EXCEPT ![FrameOf(r)] =
                     drop_entry(drop_altitude, time_step)]
    /\ pc' = [pc EXCEPT ![r] = "loop"]
    /\ UNCHANGED <<obj, script, calc>>

\* faulty variant: the iteration stores a cross-section of its own, the
\* square of the diameter without the division by 4, in the object
DropStep_recomputes(r) ==
    /\ pc[r] = "loop"
    /\ loop_condition(frame[FrameOf(r)])
    /\ Len(frame[FrameOf(r)].time) < MaxSteps
    /\ LET f == loop_body(obj, frame[FrameOf(r)])
       IN  /\ frame' = [frame EXCEPT ![FrameOf(r)] = f]
           /\ pc' = [pc EXCEPT ![r] =
                         IF f.error = "none" THEN "loop" ELSE "error"]
    /\ obj' = [obj EXCEPT !.cross_section =
                              4 * calculate_sphere_cross_section(
                                      obj.diameter.val)]
    /\ UNCHANGED <<script, calc>>

\* call r runs one iteration of the loop
DropStep(r) ==
    /\ pc[r] = "loop"
    /\ loop_condition(frame[FrameOf(r)])
    /\ Len(frame[FrameOf(r)].time) < MaxSteps
    /\ LET f == loop_body(obj, frame[FrameOf(r)])
       IN  /\ frame' = [frame EXCEPT ![FrameOf(r)] = f]
           /\ pc' = [pc EXCEPT ![r] =
                         IF f.error = "none" THEN "loop" ELSE "error"]
    /\ UNCHANGED <<obj, script, calc>>

\* call r leaves the loop and returns the trajectory and the flags
DropReturn(r) ==
    /\ pc[r] = "loop"
    /\ ~loop_condition(frame[FrameOf(r)])
    /\ pc' = [pc EXCEPT ![r] = "done"]
    /\ UNCHANGED <<obj, frame, script, calc>>

Next ==
    \/ \E m \in MassValues, d \in DiameterValues, c \in DragValues :
           Construct(m, d, c)
    \/ \E a \in AltitudeValues, s \in TimeStepValues : DropCall(1, a, s)
    \/ DropStep(1)
    \/ DropReturn(1)

Spec == Init /\ [][Next]_vars

\* the interpreter runs a started call to its end
LiveSpec == Spec /\ WF_vars(DropStep(1)) /\ WF_vars(DropReturn(1))

\* two calls on one object, interleaved iteration by iteration
NextPair ==
    \/ Construct(Num(5000), Num(300000), Num(4400))
    \/ \E r \in Runs :
           \/ \E a \in PairAltitudeValues, s \in PairTimeStepValues :
                  DropCall(r, a, s)
           \/ DropStep(r)
           \/ DropReturn(r)

PairSpec == Init /\ [][NextPair]_vars

\* the four prompts are answered with values that user_input accepts
ScriptInput(mass, diameter, drag_c, drop_h) ==
    /\ script.pc = "input"
    /\ user_input_accepts(mass)
    /\ user_input_accepts(diameter)
    /\ user_input_accepts(drag_c)
    /\ user_input_accepts(drop_h)
    /\ script' = script_entry(mass, diameter, drag_c, drop_h)
    /\ UNCHANGED <<obj, pc, frame, calc>>

\* the script runs one iteration of its loop
ScriptStep ==
    /\ script.pc = "loop"
    /\ script.h > 0
    /\ Len(script.time) < ScriptMaxSteps
    /\ script' = Call2(script_iteration, script, script_air(script.h))
    /\ UNCHANGED <<obj, pc, frame, calc>>

\* the script leaves the loop and prints its warnings
ScriptWarnings ==
    /\ script.pc = "loop"
    /\ ~(script.h > 0)
    /\ script' = script_warnings(script)
    /\ UNCHANGED <<obj, pc, frame, calc>>

ScriptNext ==
    \/ \E m \in ScriptMassValues, d \in ScriptDiameterValues,
          c \in ScriptDragValues, h \in ScriptHeightValues :
           ScriptInput(m, d, c, h)
    \/ ScriptStep
    \/ ScriptWarnings

ScriptSpec == Init /\ [][ScriptNext]_vars

\* drop_calc(item, drop_h, verbose, time_step) is called on an item built
\* from the field values of the Object
CalcCall(drop_h, time_step) ==
    /\ obj.state # "absent"
    /\ obj.mass.type = "float"
    /\ obj.diameter.type = "float"
    /\ obj.drag_c.type = "float"
    /\ calc.pc = "idle"
    /\ calc' = drop_calc_entry(src_Object(obj.mass.val, obj.diameter.val,
                                          obj.drag_c.val),
                               drop_h, time_step)
    /\ UNCHANGED <<obj, pc, frame, script>>

\* drop_calc runs one iteration of its loop
CalcStep ==
    /\ calc.pc = "loop"
    /\ calc.h_actual > 0
    /\ Len(calc.time) < MaxSteps
    /\ calc' = Call2(drop_calc_iteration, calc, drop_calc_air(calc.h_actual))
    /\ UNCHANGED <<obj, pc, frame, script>>

\* drop_calc leaves the loop and returns [time, velocity, distance]
CalcReturn ==
    /\ calc.pc = "loop"
    /\ ~(calc.h_actual > 0)
    /\ calc' = [calc EXCEPT !.pc = "done"]
    /\ UNCHANGED <<obj, pc, frame, script>>

\* Object.drop and drop_calc side by side
SideNext ==
    \/ \E m \in SideMassValues, c \in SideDragValues :
           Construct(m, Num(300000), c)
    \/ \E a \in SideAltitudeValues, s \in SideTimeStepValues :
           DropCall(1, a, s)
    \/ DropStep(1)
    \/ DropReturn(1)
    \/ \E a \in SideAltitudeValues, s \in SideTimeStepValues :
           CalcCall(a, s)
    \/ CalcStep
    \/ CalcReturn

SideSpec == Init /\ [][SideNext]_vars

\* ------------------------------------------------------------------------
\* Properties
\* ------------------------------------------------------------------------

Locals(r) == frame[FrameOf(r)]

Started(r) == pc[r] \in {"loop", "done"}

\* the object and the arguments of call r are in the documented domain
ValidCall(r) ==
    /\ obj.state = "live"
    /\ obj.mass.val > 0
    /\ obj.diameter.val > 0
    /\ obj.drag_c.val > 0
    /\ Locals(r).drop_altitude > 0
    /\ Locals(r).time_step > 0

\* C1: a call of drop on a valid object with drop_altitude > 0 and
\* time_step > 0 leaves the loop after finitely many iterations and returns
\* with the last altitude entry <= 0.
C1_Terminates ==
    (pc[1] = "loop" /\ ValidCall(1))
        ~> (pc[1] = "done" /\ Last(Locals(1).altitude) <= 0)

C1_Witness ==
    /\ pc[1] = "done"
    /\ ValidCall(1)
    /\ Len(Locals(1).altitude) > 3
    /\ Last(Locals(1).altitude) <= 0

\* C2: wherever the loop condition is evaluated and in the returned result
\* the time, altitude and velocity sequences have the same length and
\* index 0 holds the release state: time 0, velocity 0, the drop altitude.
C2_SameLengthReleaseState ==
    \A r \in Runs :
        Started(r) =>
            /\ Len(Locals(r).time) = Len(Locals(r).altitude)
            /\ Len(Locals(r).velocity) = Len(Locals(r).altitude)
            /\ Len(Locals(r).time) >= 1
            /\ Locals(r).time[1] = 0
            /\ Locals(r).velocity[1] = 0
            /\ Locals(r).altitude[1] = Locals(r).drop_altitude

C2_Witness ==
    /\ pc[1] = "done"
    /\ Len(Locals(1).time) > 3
    /\ Locals(1).altitude[1] = 12000 * ONE

\* C3: the two flags start at 0 when drop is entered, an iteration can only
\* take a flag from 0 to 1 and never back to 0, and the iteration that sets
\* a flag leaves the call inside the loop.
C3_FlagsLatched ==
    [][\A r \in Runs :
          /\ (pc[r] = "idle" /\ pc'[r] = "loop")
                 => frame'[FrameOf(r)].flags = <<0, 0>>
          /\ pc[r] = "loop" =>
                 \A i \in {1, 2} :
                     /\ frame'[FrameOf(r)].flags[i] \in {0, 1}
                     /\ frame'[FrameOf(r)].flags[i] >= Locals(r).flags[i]
          /\ (pc[r] = "loop" /\ frame'[FrameOf(r)].flags # Locals(r).flags)
                 => pc'[r] = "loop"]_vars

\* the Mach flag is up although the last iteration saw Mach <= 0.6
C3_Witness ==
    /\ pc[1] = "loop"
    /\ Len(Locals(1).velocity) > 2
    /\ Locals(1).flags[1] = 1
    /\ calculate_mach_number(
           Locals(1).velocity[Len(Locals(1).velocity) - 1],
           Locals(1).air.sound) <= 6000

\* C4: constructing an Object with a number <= 0 as mass or as diameter
\* raises (ValueError when all three fields are numbers, TypeError when
\* another field is not), cross_section is never assigned and no drop runs.
C4_ConstructorRejects ==
    (/\ obj.state # "absent"
     /\ \/ (obj.mass.type = "float" /\ obj.mass.val <= 0)
        \/ (obj.diameter.type = "float" /\ obj.diameter.val <= 0))
        => /\ obj.state = "failed"
           /\ obj.error =
                  IF "str" \in {obj.mass.type, obj.diameter.type,
                                obj.drag_c.type}
                  THEN "TypeError" ELSE "ValueError"
           /\ obj.cross_section = Unset
           /\ \A r \in Runs : pc[r] = "idle" /\ frame[r] = NoFrame

C4_Witness ==
    /\ obj.state = "failed"
    /\ obj.error = "ValueError"
    /\ obj.mass.val > 0
    /\ obj.diameter.val <= 0

\* C5: drop with drop_altitude <= 0 fails and returns no trajectory.
C5_DropAltitudeRejected ==
    \A r \in Runs : pc[r] = "done" => Locals(r).drop_altitude > 0

\* C6: drop with time_step <= 0 fails at entry: no iteration runs and no
\* sample is appended.
C6_TimeStepRejected ==
    \A r \in Runs :
        (pc[r] # "idle" /\ Locals(r).time_step <= 0)
            => /\ Len(Locals(r).time) = 1
               /\ pc[r] # "done"

\* C7: an Object with drag_c <= 0 is rejected by the constructor and no
\* call of drop raises after its loop has started.
C7_DragRejected ==
    /\ obj.state = "live" => obj.drag_c.val > 0
    /\ \A r \in Runs : pc[r] # "error"

\* C8 as stated: from rest, with positive drag coefficient and time step,
\* every velocity entry is >= 0 and the velocity sequence never decreases.
C8_VelocityNonDecreasing ==
    \A r \in Runs :
        (Started(r) /\ ValidCall(r)) =>
            \A i \in 1..(Len(Locals(r).velocity) - 1) :
                /\ Locals(r).velocity[i] >= 0
                /\ Locals(r).velocity[i + 1] >= Locals(r).velocity[i]

\* C8 amended: every velocity entry is >= 0, the first step does not lower
\* the velocity, and each new entry is at most the terminal velocity of its
\* step (the sequence is append-only, so every entry was once the last).
C8_VelocityWithinTerminal ==
    \A r \in Runs :
        (Started(r) /\ ValidCall(r)) =>
            /\ \A i \in 1..Len(Locals(r).velocity) :
                   Locals(r).velocity[i] >= 0
            /\ Len(Locals(r).velocity) >= 2 =>
                   /\ Locals(r).velocity[2] >= Locals(r).velocity[1]
                   /\ Last(Locals(r).velocity)
                          <= terminal_velocity(Locals(r).air, obj.mass.val,
                                               obj.cross_section,
                                               obj.drag_c.val)

\* a step in denser air has lowered the velocity
C8_Witness ==
    /\ Started(1)
    /\ ValidCall(1)
    /\ \E i \in 2..(Len(Locals(1).velocity) - 1) :
           /\ Locals(1).velocity[i + 1] < Locals(1).velocity[i]
           /\ atmosphere_model(Locals(1).altitude[i]).density
                  > atmosphere_model(Locals(1).altitude[i - 1]).density

\* C9: the air of an iteration is the stratospheric model of the altitude
\* when the altitude is above 11000 m and the tropospheric model otherwise,
\* 11000 m included; the temperature is -56.46 above, 15.04 - 0.00649 h below.
C9_AtmosphereSelection ==
    \A r \in Runs :
        (Started(r) /\ Len(Locals(r).altitude) >= 2) =>
            LET h == Locals(r).altitude[Len(Locals(r).altitude) - 1]
            IN  /\ h > 11000 * ONE =>
                       /\ Locals(r).air = stratospheric_model(h)
                       /\ Locals(r).air.temp_c = 0 - 564600
                /\ h <= 11000 * ONE =>
                       /\ Locals(r).air = tropospheric_model(h)
                       /\ Locals(r).air.temp_c = 150400 - MulMicro(6490, h)

\* the model was asked for exactly 11000 m
C9_Witness ==
    /\ Started(1)
    /\ Len(Locals(1).altitude) = 2
    /\ Locals(1).altitude[1] = 11000 * ONE
    /\ Locals(1).air = tropospheric_model(11000 * ONE)

RunAction(r) ==
    \/ \E a \in PairAltitudeValues, s \in PairTimeStepValues :
           DropCall(r, a, s)
    \/ DropStep(r)
    \/ DropReturn(r)

\* C10: two calls with the same arguments that have made the same number
\* of iterations hold the same sequences and flags; a step of one call
\* leaves the locals of the other untouched, and a call starts with
\* one-sample sequences and flags [0, 0] of its own.
C10_IndependentRuns ==
    /\ [](\A r, q \in Runs :
              (/\ Started(r) /\ Started(q)
               /\ Locals(r).drop_altitude = Locals(q).drop_altitude
               /\ Locals(r).time_step = Locals(q).time_step
               /\ Len(Locals(r).time) = Len(Locals(q).time))
                  => Locals(r) = Locals(q))
    /\ [][\A r \in Runs :
              RunAction(r) =>
                  /\ \A q \in Runs \ {r} :
                         frame'[FrameOf(q)] = frame[FrameOf(q)]
                  /\ pc[r] = "idle" =>
                         /\ Len(frame'[FrameOf(r)].time) = 1
                         /\ Len(frame'[FrameOf(r)].velocity) = 1
                         /\ Len(frame'[FrameOf(r)].altitude) = 1
                         /\ frame'[FrameOf(r)].flags = <<0, 0>>]_vars

\* both calls have returned the same trajectory with a flag raised
C10_Witness ==
    /\ pc[1] = "done"
    /\ pc[2] = "done"
    /\ Locals(1) = Locals(2)
    /\ Len(Locals(1).time) > 3
    /\ Locals(1).flags # <<0, 0>>

\* C11: in a call of drop with drop_altitude > 0 and time_step > 0 every
\* altitude entry but the last is > 0; on return the last entry is <= 0 and
\* above minus the distance of the last step,
\* -(velocity[n-1] + velocity[n]) / 2 * time_step; once the last entry is
\* <= 0 no sample is appended.
C11_OnlyLastAtOrBelowGround ==
    /\ [](\A r \in Runs :
              (/\ Started(r)
               /\ Locals(r).drop_altitude > 0
               /\ Locals(r).time_step > 0) =>
                  LET n == Len(Locals(r).altitude)
                  IN  /\ \A i \in 1..(n - 1) : Locals(r).altitude[i] > 0
                      /\ pc[r] = "done" =>
                             /\ n >= 2
                             /\ Locals(r).altitude[n] <= 0
                             /\ Locals(r).altitude[n] >
                                    0 - calculate_step_distance(
                                            Locals(r).velocity[n],
                                            Locals(r).velocity[n - 1],
                                            Locals(r).time_step))
    /\ [][\A r \in Runs :
              (Started(r) /\ Last(Locals(r).altitude) <= 0)
                  => frame'[FrameOf(r)] = frame[FrameOf(r)]]_vars

\* a call has returned after several steps with the last sample below ground
C11_Witness ==
    /\ pc[1] = "done"
    /\ Locals(1).drop_altitude > 0
    /\ Locals(1).time_step > 0
    /\ Len(Locals(1).altitude) > 3
    /\ Last(Locals(1).altitude) < 0
    /\ Locals(1).altitude[Len(Locals(1).altitude) - 1] > 0

\* C13: once constructed, an Object keeps mass, diameter, drag_c and
\* cross_section through every step of drop: cross_section is assigned by
\* the constructor only, no iteration assigns it again, and when drop has
\* returned it is still the value derived from the diameter.
C13_ObjectImmutable ==
    /\ [](obj.state = "live" =>
              obj.cross_section =
                  calculate_sphere_cross_section(obj.diameter.val))
    /\ [][/\ obj.state # "absent" => obj' = obj
          /\ \A r \in Runs :
                 pc[r] # "idle" =>
                     /\ obj'.mass = obj.mass
                     /\ obj'.diameter = obj.diameter
                     /\ obj'.drag_c = obj.drag_c
                     /\ obj'.cross_section = obj.cross_section]_vars

\* drop has returned after several iterations that used the cross-section
C13_Witness ==
    /\ pc[1] = "done"
    /\ Len(Locals(1).velocity) > 3
    /\ Last(Locals(1).velocity) > 0
    /\ obj.cross_section = calculate_sphere_cross_section(300000)

\* Mach number of sample i of call r in the air of its own altitude
SampleMach(r, i) ==
    calculate_mach_number(Locals(r).velocity[i],
                          atmosphere_model(Locals(r).altitude[i]).sound)

\* Reynolds number of sample i of call r in the air of its own altitude
SampleReynolds(r, i) ==
    LET air == atmosphere_model(Locals(r).altitude[i])
    IN  calculate_reynolds(air.density, Locals(r).velocity[i],
                           obj.diameter.val, air.viscosity)

\* C14: the flags are computed from the velocity held before the update of
\* each step, so the last sample is never tested: the Mach flag is 1 exactly
\* when the Mach number of some sample other than the last is > 0.6 in the
\* air of that sample's altitude, the Reynolds flag is 1 exactly when the
\* Reynolds number of some such sample is > 200000; a call whose last
\* sample alone is above a threshold returns that flag as 0.
C14_LastSampleNotTested ==
    \A r \in Runs :
        Started(r) =>
            LET n == Len(Locals(r).velocity)
            IN  /\ Locals(r).flags[1] = 1
                       <=> \E i \in 1..(n - 1) : SampleMach(r, i) > 6000
                /\ Locals(r).flags[2] = 1
                       <=> \E i \in 1..(n - 1) :
                               SampleReynolds(r, i) > 200 * ONE

\* drop has returned with the Reynolds flag 0 although the impact sample is
\* above 200000
C14_Witness ==
    /\ pc[1] = "done"
    /\ ValidCall(1)
    /\ Len(Locals(1).velocity) > 2
    /\ Locals(1).flags[2] = 0
    /\ SampleReynolds(1, Len(Locals(1).velocity)) > 200 * ONE

\* drop has returned with the Mach flag 1 for a sample before the last
C14_WitnessRaised ==
    /\ pc[1] = "done"
    /\ Locals(1).flags[1] = 1
    /\ SampleMach(1, Len(Locals(1).velocity)) <= 6000

\* Mach number of iteration i of the script, at the height drop_h - distance
ScriptStepMach(i) ==
    script_mach(script.velocity[i],
                script_air(SubFloat(script.drop_h, script.distance[i])))

\* Reynolds number of iteration i of the script
ScriptStepRe(i) ==
    script_Re(script.velocity[i], script.diameter,
              script_air(SubFloat(script.drop_h, script.distance[i])))

C12_WitnessMach ==
    /\ script.pc = "done"
    /\ script.mach_warning
    /\ script.Re_warning

\* in a finished run the last Reynolds number is the largest of the run
C12_LastReIsMax ==
    script.pc = "done" => script.Re = script.Re_max

\* Object.drop and drop_calc have been called with the same arguments
SideBySide ==
    /\ Started(1)
    /\ calc.pc \in {"loop", "done"}
    /\ calc.drop_h = Locals(1).drop_altitude
    /\ calc.time_step = Locals(1).time_step

\* the samples both calls hold
Common == 1..(IF Len(calc.time) < Len(Locals(1).time)
              THEN Len(calc.time) ELSE Len(Locals(1).time))

\* C15 as stated: side by side on the same inputs the two integrators hold
\* the same time and velocity sequences, altitude[i] = drop_h - distance[i]
\* at every index, and they stop after the same number of steps.
C15_Equivalent ==
    SideBySide =>
        /\ \A i \in Common :
               /\ calc.time[i] = Locals(1).time[i]
               /\ calc.velocity[i] = Locals(1).velocity[i]
               /\ Locals(1).altitude[i]
                      = SubFloat(calc.drop_h, calc.distance[i])
        /\ Len(calc.time) = Len(Locals(1).time)
               => (calc.h_actual > 0 <=> loop_condition(Locals(1)))
        /\ (calc.pc = "done" /\ pc[1] = "done")
               => Len(calc.time) = Len(Locals(1).time)

\* |a - b|
Distance(a, b) == Abs(a - b)

\* 0.01 m and 0.001 m/s
AltitudeTolerance == 100
VelocityTolerance == 10

\* C15 amended: side by side on the same inputs the two integrators hold
\* the same time sequence, velocities that differ by at most 0.001 m/s and
\* altitudes that differ from drop_h - distance by at most 0.01 m at every
\* index (the two ways of summing round differently), and in the runs
\* followed they stop after the same number of steps.
C15_EquivalentUpToRounding ==
    SideBySide =>
        /\ \A i \in Common :
               /\ calc.time[i] = Locals(1).time[i]
               /\ Distance(calc.velocity[i], Locals(1).velocity[i])
                      <= VelocityTolerance
               /\ Distance(Locals(1).altitude[i],
                           SubFloat(calc.drop_h, calc.distance[i]))
                      <= AltitudeTolerance
        /\ Len(calc.time) = Len(Locals(1).time)
               => (calc.h_actual > 0 <=> loop_condition(Locals(1)))
        /\ (calc.pc = "done" /\ pc[1] = "done")
               => Len(calc.time) = Len(Locals(1).time)

\* both calls have returned after the same steps with altitudes that differ
C15_Witness ==
    /\ SideBySide
    /\ calc.pc = "done"
    /\ pc[1] = "done"
    /\ Len(calc.time) = Len(Locals(1).time)
    /\ Len(calc.time) > 3
    /\ \E i \in Common :
           Locals(1).altitude[i] # SubFloat(calc.drop_h, calc.distance[i])
====
